---- MODULE Spec2Model ----
(***************************************************************************)
(* A model of src/src/operations/vue_object.ts: the translation of a       *)
(* vue-class-component declaration into a Vue.extend({...}) object.        *)
(*                                                                         *)
(* Text that the code inspects or rewrites (type texts, JSDoc comments) is *)
(* a sequence of one-character strings, so that startsWith, endsWith,      *)
(* split, map and join are computed as the code computes them.  Text that  *)
(* the code only carries (names, initializer texts, statement texts) is a  *)
(* plain string.  A syntax node is a record with a "kind" field.           *)
(***************************************************************************)
EXTENDS Integers, Sequences, FiniteSets, TLC

VARIABLES
    pc,             \* position inside classToObject
    vue,            \* what vue_class.extract(source) returns for this unit
    source,         \* the source unit: its imports and top-level statements
    calls,          \* the calls made on the source unit so far, in order
    log,            \* the lines written with console.log, in order
    properties,     \* classToObject's local `properties`
    component,      \* classToObject's local `component`
    documentation,  \* classToObject's local `documentation`
    error,          \* the message of the Error that left classToObject, or ""
    before          \* the source unit as it was when classToObject was called

vars == <<pc, vue, source, calls, log, properties, component, documentation, error,
          before>>

----------------------------------------------------------------------------
(* Bounds of the model.                                                    *)

MaxPassthrough == 2
MaxProps == 2
MaxData == 1
MaxComputed == 1
MaxDocs == 2
MaxPropsDetail == 1
MaxComputedDetail == 2

----------------------------------------------------------------------------
(* Text.                                                                   *)

NL == "\n"

StartsWith(s, p) == Len(s) >= Len(p) /\ SubSeq(s, 1, Len(p)) = p

EndsWith(s, p) == Len(s) >= Len(p) /\ SubSeq(s, Len(s) - Len(p) + 1, Len(s)) = p

RECURSIVE Split(_)
Split(s) ==
    IF \A i \in 1..Len(s) : s[i] # NL
    THEN <<s>>
    ELSE LET i == CHOOSE k \in 1..Len(s) :
                      s[k] = NL /\ \A j \in 1..(k - 1) : s[j] # NL
         IN <<SubSeq(s, 1, i - 1)>> \o Split(SubSeq(s, i + 1, Len(s)))

RECURSIVE Join(_)
Join(lines) ==
    IF Len(lines) = 0 THEN <<>>
    ELSE IF Len(lines) = 1 THEN lines[1]
    ELSE lines[1] \o <<NL>> \o Join(Tail(lines))

SeqsUpTo(S, n) == UNION {[1..k -> S] : k \in 0..n}

----------------------------------------------------------------------------
(* Syntax nodes built with ts.factory.                                     *)

None == [present |-> FALSE]

Identifier(text) == [kind |-> "Identifier", text |-> text, comments |-> <<>>]

StringLiteral(text) == [kind |-> "StringLiteral", text |-> text, comments |-> <<>>]

FalseKeyword == [kind |-> "FalseKeyword", comments |-> <<>>]

PropertyAssignment(name, initializer) ==
    [kind |-> "PropertyAssignment", name |-> name, initializer |-> initializer,
     comments |-> <<>>]

ObjectLiteralExpression(props) ==
    [kind |-> "ObjectLiteralExpression", properties |-> props, multiLine |-> TRUE,
     comments |-> <<>>]

MethodDeclaration(name, parameters, type, body) ==
    [kind |-> "MethodDeclaration", name |-> name, parameters |-> parameters,
     type |-> type, body |-> body, comments |-> <<>>]

ExpressionStatement(expression) ==
    [kind |-> "ExpressionStatement", expression |-> expression]

ReturnStatement(expression) ==
    [kind |-> "ReturnStatement", expression |-> expression]

CreateBlock(statements) ==
    [kind |-> "Block", statements |-> statements, multiLine |-> TRUE]

CallExpression(expression, arguments) ==
    [kind |-> "CallExpression", expression |-> expression, arguments |-> arguments]

\* f.createKeywordTypeNode(ts.SyntaxKind.AnyKeyword): a node made by the
\* factory, as opposed to a type node taken from the source text.
AnyKeywordTypeNode ==
    [present |-> TRUE, kind |-> "AnyKeyword", synthesized |-> TRUE]

\* A type node of the source text, e.g. the `string` of `get x(): string`.
SourceTypeNode(kind) ==
    [present |-> TRUE, kind |-> kind, synthesized |-> FALSE]

----------------------------------------------------------------------------
(* Documentation.                                                          *)

\* ts.addSyntheticLeadingComment(target, MultiLineCommentTrivia, text, true)
addSyntheticLeadingComment(target, text) ==
    [target EXCEPT !.comments =
        Append(@, [kind |-> "MultiLineCommentTrivia", text |-> text,
                   hasTrailingNewLine |-> TRUE])]

CommentLine(line) == <<" ", "*", " ">> \o line

CommentLines(lines) == [i \in 1..Len(lines) |-> CommentLine(lines[i])]

\* A faulty variant: the comment is not split into its lines.
createDocumentationUnsplit(target, docs) ==
    IF Len(docs) > 0 /\ docs[1].comment # <<>>
    THEN addSyntheticLeadingComment(
             target, <<"*", NL>> \o CommentLine(docs[1].comment) \o <<NL, " ">>)
    ELSE target

createDocumentation(target, docs) ==
    IF Len(docs) > 0
    THEN LET comment == docs[1].comment
         IN IF comment # <<>>
            THEN addSyntheticLeadingComment(
                     target,
                     <<"*", NL>> \o Join(CommentLines(Split(comment)))
                         \o <<NL, " ">>)
            ELSE target
    ELSE target

\* JSDoc.getFullText(): the block as written in the source text, one line per
\* line of comment text and one line per tag.
getFullText(doc) ==
    LET body == (IF doc.comment = <<>> THEN <<>> ELSE Split(doc.comment)) \o doc.tags
    IN <<"/", "*", "*", NL>>
         \o Join(CommentLines(body))
         \o (IF Len(body) > 0 THEN <<NL>> ELSE <<>>)
         \o <<" ", "*", "/">>

----------------------------------------------------------------------------
(* Body re-emission.                                                       *)

StatementToExpression(text) == ExpressionStatement(Identifier(text))

transformBlock(block) ==
    CreateBlock([i \in 1..Len(block.statements) |->
                    StatementToExpression(block.statements[i])])

----------------------------------------------------------------------------
(* Results of the translators.  A translator either returns a node or      *)
(* throws; either way it may have changed the source unit, called the      *)
(* import utility and written to the console: env carries those three.     *)

Env(src, cs, lg) == [source |-> src, calls |-> cs, log |-> lg]

Return(value, env) == [threw |-> FALSE, error |-> "", value |-> value, env |-> env]

Throw(message, env) == [threw |-> TRUE, error |-> message, value |-> None, env |-> env]

----------------------------------------------------------------------------
(* imports.ensure(source, module, {named: [name]}) of ./imports.           *)

HasImport(src, module, name) ==
    \E i \in 1..Len(src.imports) :
        src.imports[i] = [module |-> module, named |-> name]

ensure(env, module, name) ==
    [env EXCEPT
        !.calls = Append(@, "ensure"),
        !.source.imports =
            IF HasImport(env.source, module, name) THEN @
            ELSE Append(@, [module |-> module, named |-> name])]

----------------------------------------------------------------------------
(* Name.                                                                   *)

classNameToPropName(env, v) ==
    IF v.declaration.name.present
    THEN Return(PropertyAssignment("name", StringLiteral(v.declaration.name.text)), env)
    ELSE Throw("getNameOrThrow", env)

----------------------------------------------------------------------------
(* Props.                                                                  *)

ArrayLt == <<"A", "r", "r", "a", "y", "<">>
Brackets == <<"[", "]">>
StringText == <<"S", "t", "r", "i", "n", "g">>
NumberText == <<"N", "u", "m", "b", "e", "r">>
BooleanText == <<"B", "o", "o", "l", "e", "a", "n">>
ObjectText == <<"O", "b", "j", "e", "c", "t">>
FunctionText == <<"F", "u", "n", "c", "t", "i", "o", "n">>
ArrayText == <<"A", "r", "r", "a", "y">>
AsPropTypeLt == <<" ", "a", "s", " ", "P", "r", "o", "p", "T", "y", "p", "e", "<">>
Gt == <<">">>

\* A faulty variant: the array test comes before the call-signature test.
baseTypeArrayFirst(type, actualType) ==
    IF StartsWith(actualType, ArrayLt) \/ EndsWith(actualType, Brackets) THEN ArrayText
    ELSE IF type.callSignatures > 0 THEN FunctionText
    ELSE ObjectText

baseTypeOf(type, actualType) ==
    IF type.callSignatures > 0 THEN FunctionText
    ELSE IF StartsWith(actualType, ArrayLt) \/ EndsWith(actualType, Brackets)
         THEN ArrayText
    ELSE ObjectText

\* A faulty variant: the import is ensured for every prop, whatever its type.
classPropTypeEnsuringAlways(env, prop) ==
    LET type == prop.declaration.type
        env1 == ensure(env, "vue", "PropType")
    IN IF type.flag = "string"
       THEN Return(PropertyAssignment("type", Identifier(StringText)), env1)
       ELSE IF type.flag = "number"
       THEN Return(PropertyAssignment("type", Identifier(NumberText)), env1)
       ELSE IF type.flag = "boolean"
       THEN Return(PropertyAssignment("type", Identifier(BooleanText)), env1)
       ELSE IF ~prop.declaration.typeNode.present
       THEN Throw("getTypeNodeOrThrow", env1)
       ELSE Return(
                PropertyAssignment(
                    "type",
                    Identifier(baseTypeOf(type, prop.declaration.typeNode.text)
                                   \o AsPropTypeLt \o prop.declaration.typeNode.text
                                   \o Gt)),
                env1)

classPropTypeToObjectPropType(env, prop) ==
    LET type == prop.declaration.type
    IN IF type.flag = "string"
       THEN Return(PropertyAssignment("type", Identifier(StringText)), env)
       ELSE IF type.flag = "number"
       THEN Return(PropertyAssignment("type", Identifier(NumberText)), env)
       ELSE IF type.flag = "boolean"
       THEN Return(PropertyAssignment("type", Identifier(BooleanText)), env)
       ELSE LET env1 == ensure(env, "vue", "PropType")
            IN IF ~prop.declaration.typeNode.present
               THEN Throw("getTypeNodeOrThrow", env1)
               ELSE LET actualType == prop.declaration.typeNode.text
                        baseType == baseTypeOf(type, actualType)
                    IN Return(
                           PropertyAssignment(
                               "type",
                               Identifier(baseType \o AsPropTypeLt \o actualType \o Gt)),
                           env1)

\* A faulty variant: `required` is carried over whenever it is present, also
\* next to a default.
PropOptionsKeepingRequired(prop) ==
    (IF prop.default.present
     THEN <<PropertyAssignment("default",
                               Identifier(prop.default.compilerNode.initializer.text))>>
     ELSE <<>>)
    \o (IF prop.required.present THEN <<prop.required.compilerNode>>
        ELSE IF prop.default.present THEN <<>>
        ELSE <<PropertyAssignment("required", FalseKeyword)>>)

classPropOptionsToObjectPropOptions(prop) ==
    IF prop.default.present
    THEN <<PropertyAssignment("default",
                              Identifier(prop.default.compilerNode.initializer.text))>>
    ELSE IF prop.required.present
    THEN <<prop.required.compilerNode>>
    ELSE <<PropertyAssignment("required", FalseKeyword)>>

classPropToObjectProp(env, prop) ==
    LET type == classPropTypeToObjectPropType(env, prop)
    IN IF type.threw THEN type
       ELSE Return(
                createDocumentation(
                    PropertyAssignment(
                        prop.declaration.name,
                        ObjectLiteralExpression(
                            <<type.value>> \o classPropOptionsToObjectPropOptions(prop))),
                    prop.declaration.jsDocs),
                type.env)

\* vue.props.map(prop => classPropToObjectProp(source, prop)), from element i
\* on, with the elements translated so far in acc.
RECURSIVE MapProps(_, _, _, _)
MapProps(env, props, i, acc) ==
    IF i > Len(props) THEN Return(acc, env)
    ELSE LET r == classPropToObjectProp(env, props[i])
         IN IF r.threw THEN r
            ELSE MapProps(r.env, props, i + 1, Append(acc, r.value))

classPropsToObjectProps(env, v) ==
    LET mapped == MapProps(env, v.props, 1, <<>>)
    IN IF mapped.threw THEN mapped
       ELSE Return(PropertyAssignment("props", ObjectLiteralExpression(mapped.value)),
                   mapped.env)

----------------------------------------------------------------------------
(* Data.                                                                   *)

dataProperty(declaration) ==
    LET value == declaration.initializer
        type == declaration.typeNode
        initializer == IF type.present
                       THEN Identifier(<<value.text, " as ", type.text>>)
                       ELSE Identifier(<<value.text>>)
    IN createDocumentation(PropertyAssignment(declaration.name, initializer),
                           declaration.jsDocs)

RECURSIVE DataLoop(_, _, _, _)
DataLoop(env, data, i, props) ==
    IF i > Len(data) THEN Return(props, env)
    ELSE IF ~data[i].initializer.present
    THEN Throw("getInitializerOrThrow", env)
    ELSE DataLoop(env, data, i + 1, Append(props, dataProperty(data[i])))

classDataToObjectData(env, v) ==
    LET loop == DataLoop(env, v.data, 1, <<>>)
    IN IF loop.threw THEN loop
       ELSE Return(
                MethodDeclaration(
                    "data", <<>>, None,
                    CreateBlock(<<ReturnStatement(ObjectLiteralExpression(loop.value))>>)),
                loop.env)

----------------------------------------------------------------------------
(* Computed.                                                               *)

GetterLog(name) == [text |-> "Computed getter will require a manual return type", name |-> name]

PropertyLog(name) == [text |-> "Computed getter for will require a manual return type", name |-> name]

ConsoleLog(env, line) == [env EXCEPT !.log = Append(@, line)]

classComputedGetterToObjectComputedGetter(env, name, getter) ==
    LET typed == getter.returnTypeNode.present
        getterReturnType == IF typed THEN getter.returnTypeNode ELSE AnyKeywordTypeNode
        env1 == IF typed THEN env ELSE ConsoleLog(env, GetterLog(name))
    IN IF ~getter.body.present
       THEN Throw("getBodyOrThrow", env1)
       ELSE Return(MethodDeclaration(name, <<>>, getterReturnType,
                                     transformBlock(getter.body)),
                   env1)

\* A faulty variant: the getter keeps its own return type when it has one.
classComputedPropertyKeepingGetterType(env, name, getter, setter) ==
    IF Len(setter.parameters) = 0
    THEN Throw("Computed setter doesn't seem to have a parameter.", env)
    ELSE IF ~setter.body.present
    THEN Throw("getBodyOrThrow", env)
    ELSE LET setParameter == setter.parameters[1]
             typed == getter.returnTypeNode.present \/ setParameter.typeNode.present
             getterReturnType ==
                 IF getter.returnTypeNode.present THEN getter.returnTypeNode
                 ELSE IF setParameter.typeNode.present THEN setParameter.typeNode
                 ELSE AnyKeywordTypeNode
             env1 == IF typed THEN env ELSE ConsoleLog(env, PropertyLog(name))
         IN IF ~getter.body.present
            THEN Throw("getBodyOrThrow", env1)
            ELSE Return(
                     PropertyAssignment(
                         name,
                         ObjectLiteralExpression(
                             <<MethodDeclaration("get", <<>>, getterReturnType,
                                                 transformBlock(getter.body)),
                               MethodDeclaration("set", <<setParameter>>, None,
                                                 transformBlock(setter.body))>>)),
                     env1)

classComputedPropertyToObjectComputedProperty(env, name, getter, setter) ==
    IF Len(setter.parameters) = 0
    THEN Throw("Computed setter doesn't seem to have a parameter.", env)
    ELSE IF ~setter.body.present
    THEN Throw("getBodyOrThrow", env)
    ELSE LET setParameter == setter.parameters[1]
             setterDeclaration ==
                 MethodDeclaration("set", <<setParameter>>, None,
                                   transformBlock(setter.body))
             typed == setParameter.typeNode.present
             getterReturnType ==
                 IF typed THEN setParameter.typeNode ELSE AnyKeywordTypeNode
             env1 == IF typed THEN env ELSE ConsoleLog(env, PropertyLog(name))
         IN IF ~getter.body.present
            THEN Throw("getBodyOrThrow", env1)
            ELSE Return(
                     PropertyAssignment(
                         name,
                         ObjectLiteralExpression(
                             <<MethodDeclaration("get", <<>>, getterReturnType,
                                                 transformBlock(getter.body)),
                               setterDeclaration>>)),
                     env1)

\* The loop over Object.entries(vue.computed), from entry i on, with the
\* local `properties` so far in props.
RECURSIVE ComputedLoop(_, _, _, _)
ComputedLoop(env, entries, i, props) ==
    IF i > Len(entries) THEN Return(props, env)
    ELSE LET name == entries[i].name
             getter == entries[i].getter
             setter == entries[i].setter
         IN IF getter.present
            THEN LET r == IF setter.present
                          THEN classComputedPropertyToObjectComputedProperty(
                                   env, name, getter, setter)
                          ELSE classComputedGetterToObjectComputedGetter(
                                   env, name, getter)
                 IN IF r.threw THEN r
                    ELSE ComputedLoop(r.env, entries, i + 1, Append(props, r.value))
            ELSE IF setter.present
            THEN Throw("Found an illegal computed setter without a getter.", env)
            ELSE ComputedLoop(env, entries, i + 1, props)

\* A faulty variant: entries without a getter are left out, setter or not.
RECURSIVE ComputedLoopSkippingSetters(_, _, _, _)
ComputedLoopSkippingSetters(env, entries, i, props) ==
    IF i > Len(entries) THEN Return(props, env)
    ELSE IF ~entries[i].getter.present
    THEN ComputedLoopSkippingSetters(env, entries, i + 1, props)
    ELSE LET r == IF entries[i].setter.present
                  THEN classComputedPropertyToObjectComputedProperty(
                           env, entries[i].name, entries[i].getter, entries[i].setter)
                  ELSE classComputedGetterToObjectComputedGetter(
                           env, entries[i].name, entries[i].getter)
         IN IF r.threw THEN r
            ELSE ComputedLoopSkippingSetters(r.env, entries, i + 1,
                                             Append(props, r.value))

classComputedSkippingSetters(env, v) ==
    LET loop == ComputedLoopSkippingSetters(env, v.computed, 1, <<>>)
    IN IF loop.threw THEN loop
       ELSE Return(PropertyAssignment("computed", ObjectLiteralExpression(loop.value)),
                   loop.env)

classComputedToObjectComputed(env, v) ==
    LET loop == ComputedLoop(env, v.computed, 1, <<>>)
    IN IF loop.threw THEN loop
       ELSE Return(PropertyAssignment("computed", ObjectLiteralExpression(loop.value)),
                   loop.env)

----------------------------------------------------------------------------
(* classToObject, one action per statement group of its body.              *)

Absent == [absent |-> TRUE]

ClassStatement == [kind |-> "ClassDeclaration"]

OtherStatement == [kind |-> "ImportOrOther"]

ExportAssignment(expression, trivia) ==
    [kind |-> "ExportAssignment", isExportEquals |-> FALSE,
     expression |-> expression, leadingTrivia |-> trivia]

IsClass(st) == st.kind = "ClassDeclaration"

IsExport(st) == st.kind = "ExportAssignment"

NotClass(st) == ~IsClass(st)

CurrentEnv == Env(source, calls, log)

\* An Error leaves classToObject: what was done to the unit stays done.
Raise(r) ==
    /\ pc' = "failed"
    /\ error' = r.error
    /\ source' = r.env.source
    /\ calls' = r.env.calls
    /\ log' = r.env.log
    /\ UNCHANGED <<vue, before, properties, component, documentation>>

\* A translator returned: its node is pushed and control moves on.
Push(r, next) ==
    /\ pc' = next
    /\ properties' = Append(properties, r.value)
    /\ source' = r.env.source
    /\ calls' = r.env.calls
    /\ log' = r.env.log
    /\ UNCHANGED <<vue, before, component, documentation, error>>

Skip(next) ==
    /\ pc' = next
    /\ UNCHANGED <<vue, before, source, calls, log, properties, component, documentation, error>>

\* A faulty variant: the unit is reformatted before the early return.
ExtractFormatting ==
    /\ pc = "extract"
    /\ IF vue.absent
       THEN /\ pc' = "done"
            /\ calls' = Append(calls, "formatText")
            /\ UNCHANGED <<vue, before, source, log, properties, component,
                           documentation, error>>
       ELSE Skip("name")

Extract ==
    /\ pc = "extract"
    /\ IF vue.absent THEN Skip("done") ELSE Skip("name")

Name ==
    /\ pc = "name"
    /\ LET r == classNameToPropName(CurrentEnv, vue)
       IN IF r.threw THEN Raise(r) ELSE Push(r, "passthrough")

Passthrough ==
    /\ pc = "passthrough"
    /\ pc' = "props"
    /\ properties' = properties \o vue.decorator.properties
    /\ UNCHANGED <<vue, before, source, calls, log, component, documentation, error>>

Props ==
    /\ pc = "props"
    /\ IF Len(vue.props) > 0
       THEN LET r == classPropsToObjectProps(CurrentEnv, vue)
            IN IF r.threw THEN Raise(r) ELSE Push(r, "data")
       ELSE Skip("data")

\* A faulty variant: the data method is emitted whether or not there is data.
DataUnguarded ==
    /\ pc = "data"
    /\ LET r == classDataToObjectData(CurrentEnv, vue)
       IN IF r.threw THEN Raise(r) ELSE Push(r, "computed")

Data ==
    /\ pc = "data"
    /\ IF Len(vue.data) > 0
       THEN LET r == classDataToObjectData(CurrentEnv, vue)
            IN IF r.threw THEN Raise(r) ELSE Push(r, "computed")
       ELSE Skip("computed")

Computed ==
    /\ pc = "computed"
    /\ IF Len(vue.computed) > 0
       THEN LET r == classComputedToObjectComputed(CurrentEnv, vue)
            IN IF r.threw THEN Raise(r) ELSE Push(r, "wrap")
       ELSE Skip("wrap")

Wrap ==
    /\ pc = "wrap"
    /\ pc' = "docs"
    /\ component' = CallExpression(Identifier("Vue.extend"),
                                   <<ObjectLiteralExpression(properties)>>)
    /\ UNCHANGED <<vue, before, source, calls, log, properties, documentation, error>>

SaveDocs ==
    /\ pc = "docs"
    /\ pc' = "remove"
    /\ documentation' = IF Len(vue.declaration.jsDocs) > 0
                        THEN getFullText(vue.declaration.jsDocs[1])
                        ELSE documentation
    /\ UNCHANGED <<vue, before, source, calls, log, properties, component, error>>

\* A faulty variant: the class declaration is not removed.
RemoveNothing ==
    /\ pc = "remove"
    /\ pc' = "export"
    /\ calls' = Append(calls, "remove")
    /\ UNCHANGED <<vue, before, source, log, properties, component, documentation,
                   error>>

Remove ==
    /\ pc = "remove"
    /\ pc' = "export"
    /\ source' = [source EXCEPT !.statements = SelectSeq(@, NotClass)]
    /\ calls' = Append(calls, "remove")
    /\ UNCHANGED <<vue, before, log, properties, component, documentation, error>>

AddExport ==
    /\ pc = "export"
    /\ pc' = "format"
    /\ source' = [source EXCEPT !.statements =
           Append(@, ExportAssignment(
                         component,
                         IF documentation # <<>> THEN documentation \o <<NL>>
                         ELSE <<>>))]
    /\ calls' = Append(calls, "addExportAssignment")
    /\ UNCHANGED <<vue, before, log, properties, component, documentation, error>>

Format ==
    /\ pc = "format"
    /\ pc' = "done"
    /\ calls' = Append(calls, "formatText")
    /\ UNCHANGED <<vue, before, source, log, properties, component, documentation, error>>

Next ==
    \/ Extract
    \/ Name
    \/ Passthrough
    \/ Props
    \/ Data
    \/ Computed
    \/ Wrap
    \/ SaveDocs
    \/ Remove
    \/ AddExport
    \/ Format

----------------------------------------------------------------------------
(* The units classToObject is run on.                                      *)

NameAt(i) == <<"a", "b", "c", "d", "e">>[i]

JSDoc(comment, tags) == [comment |-> comment, tags |-> tags]

Comments == {<<>>, <<"a">>, <<"a", NL, "b">>}

TagLists == {<<>>, << <<"@", "x">> >>}

Blocks == {JSDoc(c, t) : c \in Comments, t \in TagLists}

DocSeqs == SeqsUpTo(Blocks, MaxDocs)

SimpleDocs == {<<>>, <<JSDoc(<<"a">>, <<>>)>>}

SourceExpression(text) == [kind |-> "SourceExpression", text |-> text, comments |-> <<>>]

TextNode(text) == [present |-> TRUE, text |-> text]

\* Props: the type of the declaration (what getType() answers: the kind
\* isString/isNumber/isBoolean see, and the number of call signatures), its
\* type node if it has one, and the `default` and `required` assignments of
\* the @Prop decorator.
TypedPropTypes ==
    {[type |-> [flag |-> "string", callSignatures |-> 0],
      typeNode |-> TextNode(<<"s", "t", "r", "i", "n", "g">>)],
     [type |-> [flag |-> "number", callSignatures |-> 0],
      typeNode |-> TextNode(<<"n", "u", "m", "b", "e", "r">>)],
     [type |-> [flag |-> "boolean", callSignatures |-> 0],
      typeNode |-> TextNode(<<"b", "o", "o", "l", "e", "a", "n">>)],
     [type |-> [flag |-> "other", callSignatures |-> 0],
      typeNode |-> TextNode(<<"F", "o", "o">>)],
     [type |-> [flag |-> "other", callSignatures |-> 1],
      typeNode |-> TextNode(<<"F", "n">>)],
     [type |-> [flag |-> "other", callSignatures |-> 0],
      typeNode |-> TextNode(<<"T", "[", "]">>)],
     [type |-> [flag |-> "other", callSignatures |-> 0],
      typeNode |-> TextNode(ArrayLt \o <<"T", ">">>)],
     [type |-> [flag |-> "other", callSignatures |-> 0],
      typeNode |-> TextNode(ArrayText \o <<"s">>)],
     [type |-> [flag |-> "other", callSignatures |-> 0],
      typeNode |-> TextNode(<<"T", "[", "]", "|", "U">>)],
     [type |-> [flag |-> "other", callSignatures |-> 1],
      typeNode |-> TextNode(ArrayLt \o <<"T", ">", "&", "F">>)],
     [type |-> [flag |-> "other", callSignatures |-> 1],
      typeNode |-> TextNode(<<"F", "&", "T", "[", "]">>)]}

\* A prop without a type annotation: its type is inferred from its initializer.
UntypedPropTypes ==
    {[type |-> [flag |-> fl, callSignatures |-> 0], typeNode |-> None] :
        fl \in {"string", "number", "boolean", "other"}}
    \cup {[type |-> [flag |-> "other", callSignatures |-> 1], typeNode |-> None]}

Defaults ==
    {None,
     [present |-> TRUE,
      compilerNode |-> PropertyAssignment("default", SourceExpression("'x'"))]}

Requireds ==
    {None,
     [present |-> TRUE,
      compilerNode |-> PropertyAssignment("required", SourceExpression("true"))],
     [present |-> TRUE,
      compilerNode |-> PropertyAssignment("required", SourceExpression("false"))]}

PropModel(t, d, r, docs) ==
    [declaration |-> [name |-> "", type |-> t.type, typeNode |-> t.typeNode,
                      jsDocs |-> docs],
     default |-> d, required |-> r]

AllProps ==
    {PropModel(t, d, r, <<>>) :
        t \in TypedPropTypes \cup UntypedPropTypes, d \in Defaults, r \in Requireds}

StringProp ==
    PropModel([type |-> [flag |-> "string", callSignatures |-> 0],
               typeNode |-> TextNode(<<"s", "t", "r", "i", "n", "g">>)],
              [present |-> TRUE,
               compilerNode |-> PropertyAssignment("default", SourceExpression("'x'"))],
              None, <<>>)

FooProp(docs) ==
    PropModel([type |-> [flag |-> "other", callSignatures |-> 0],
               typeNode |-> TextNode(<<"F", "o", "o">>)],
              None, None, docs)

InferredObjectProp ==
    PropModel([type |-> [flag |-> "other", callSignatures |-> 0], typeNode |-> None],
              None, None, <<>>)

GoodProps == {StringProp, FooProp(<<>>)}

MainProps == GoodProps \cup {InferredObjectProp}

\* Data fields.
DataField(initializer, typeNode, docs) ==
    [name |-> "", initializer |-> initializer, typeNode |-> typeNode, jsDocs |-> docs]

TypedData(docs) == DataField(TextNode("1"), TextNode("number"), docs)

UntypedData == DataField(TextNode("1"), None, <<>>)

UninitializedData == DataField(None, TextNode("number"), <<>>)

GoodData == {TypedData(<<>>)}

MainData == GoodData \cup {UninitializedData}

\* Computed pairs.
SourceBlock == [present |-> TRUE, kind |-> "Block", statements |-> <<"s1", "s2">>]

Parameter(typeNode) == [kind |-> "Parameter", name |-> "value", typeNode |-> typeNode]

Getter(returnTypeNode, body) ==
    [present |-> TRUE, returnTypeNode |-> returnTypeNode, body |-> body]

Setter(parameters, body) ==
    [present |-> TRUE, parameters |-> parameters, body |-> body]

Pair(getter, setter) == [name |-> "", getter |-> getter, setter |-> setter]

Getters ==
    {None,
     Getter(None, SourceBlock),
     Getter(SourceTypeNode("StringKeyword"), SourceBlock),
     Getter(SourceTypeNode("AnyKeyword"), SourceBlock),
     Getter(None, None)}

Setters ==
    {None,
     Setter(<<>>, SourceBlock),
     Setter(<<Parameter(None)>>, SourceBlock),
     Setter(<<Parameter(SourceTypeNode("StringKeyword"))>>, SourceBlock),
     Setter(<<Parameter(SourceTypeNode("StringKeyword"))>>, None)}

AllPairs == {Pair(g, s) : g \in Getters, s \in Setters}

GoodPairs == {Pair(Getter(None, SourceBlock), None)}

MainPairs == GoodPairs \cup {Pair(Getter(None, SourceBlock), Setter(<<>>, SourceBlock))}

\* The passthrough options of the @Component decorator.
PassthroughOptions ==
    {PropertyAssignment("components", SourceExpression("{ A }")),
     PropertyAssignment("mixins", SourceExpression("[M]"))}

\* Declarations.
Declaration(name, docs) == [name |-> name, jsDocs |-> docs]

Named(docs) == Declaration([present |-> TRUE, text |-> "Foo"], docs)

GoodDeclarations == {Named(d) : d \in SimpleDocs}

MainDeclarations == GoodDeclarations \cup {Declaration(None, <<>>)}

WithPropNames(props) ==
    [i \in 1..Len(props) |-> [props[i] EXCEPT !.declaration.name = NameAt(i)]]

WithNames(items) == [i \in 1..Len(items) |-> [items[i] EXCEPT !.name = NameAt(i)]]

Model(declaration, passthrough, props, data, computed) ==
    [absent |-> FALSE,
     declaration |-> declaration,
     decorator |-> [properties |-> passthrough],
     props |-> WithPropNames(props),
     data |-> WithNames(data),
     computed |-> WithNames(computed)]

PropTypeImport == [module |-> "vue", named |-> "PropType"]

ComponentImport == [module |-> "vue-property-decorator", named |-> "Component"]

InitialImports == {<<ComponentImport>>, <<ComponentImport, PropTypeImport>>}

InitialSource(v, imports) ==
    [imports |-> imports,
     statements |-> IF v.absent THEN <<OtherStatement>>
                    ELSE <<OtherStatement, ClassStatement>>]

\* classToObject is about to run on a unit for which extract answers v.
Start(v) ==
    /\ pc = "extract"
    /\ vue = v
    /\ \E imports \in InitialImports : source = InitialSource(v, imports)
    /\ before = source
    /\ calls = <<>>
    /\ log = <<>>
    /\ properties = <<>>
    /\ component = None
    /\ documentation = <<>>
    /\ error = ""

\* Units that translate, every section varied together.
AssemblyUnits ==
    \E decl \in GoodDeclarations,
       pass \in SeqsUpTo(PassthroughOptions, MaxPassthrough),
       props \in SeqsUpTo(GoodProps, MaxProps),
       data \in SeqsUpTo(GoodData, MaxData),
       computed \in SeqsUpTo(GoodPairs, MaxComputed) :
        Start(Model(decl, pass, props, data, computed))

\* Units in which any section may fail.
FailingUnits ==
    \E decl \in MainDeclarations,
       props \in SeqsUpTo(MainProps, MaxProps),
       data \in SeqsUpTo(MainData, MaxData),
       computed \in SeqsUpTo(MainPairs, MaxComputed) :
        Start(Model(decl, <<>>, props, data, computed))

\* Units with every kind of prop.
PropUnits ==
    \E props \in SeqsUpTo(AllProps, MaxPropsDetail) :
        Start(Model(Named(<<>>), <<>>, props, <<>>, <<>>))

\* Units with every kind of computed pair.
ComputedUnits ==
    \E computed \in SeqsUpTo(AllPairs, MaxComputedDetail) :
        Start(Model(Named(<<>>), <<>>, <<>>, <<>>, computed))

\* Units with every documentation block sequence, on a prop, on a data field
\* or on the declaration.
DocUnits ==
    \E docs \in DocSeqs :
        \/ Start(Model(Named(<<>>), <<>>, <<FooProp(docs)>>, <<UntypedData>>, <<>>))
        \/ Start(Model(Named(<<>>), <<>>, <<StringProp>>, <<TypedData(docs)>>, <<>>))
        \/ Start(Model(Named(docs), <<>>, <<>>, <<>>, <<>>))

Init ==
    \/ Start(Absent)
    \/ AssemblyUnits
    \/ FailingUnits
    \/ PropUnits
    \/ ComputedUnits
    \/ DocUnits

Spec == Init /\ [][Next]_vars

----------------------------------------------------------------------------
(* What the properties below read off a state.                             *)

Called == ~vue.absent

Succeeded == Called /\ pc = "done"

ClassPresent == \E i \in 1..Len(source.statements) : IsClass(source.statements[i])

Exports == SelectSeq(source.statements, IsExport)

Count(seq, x) == Cardinality({i \in 1..Len(seq) : seq[i] = x})

NotEnsure(c) == c # "ensure"

IsPrimitive(prop) == prop.declaration.type.flag \in {"string", "number", "boolean"}

NonPrimitiveProps == {i \in 1..Len(vue.props) : ~IsPrimitive(vue.props[i])}

\* Where the sections stand in `properties` once they have been pushed.
PropsIndex == Len(vue.decorator.properties) + 2

DataIndex == PropsIndex + (IF Len(vue.props) > 0 THEN 1 ELSE 0)

ComputedIndex == DataIndex + (IF Len(vue.data) > 0 THEN 1 ELSE 0)

PropsPushed ==
    /\ Called /\ Len(vue.props) > 0
    /\ pc \notin {"extract", "name", "passthrough", "props"}
    /\ Len(properties) >= PropsIndex

DataPushed ==
    /\ Called /\ Len(vue.data) > 0
    /\ pc \notin {"extract", "name", "passthrough", "props", "data"}
    /\ Len(properties) >= DataIndex

ComputedPushed ==
    /\ Called /\ Len(vue.computed) > 0
    /\ pc \notin {"extract", "name", "passthrough", "props", "data", "computed"}
    /\ Len(properties) >= ComputedIndex

EmittedProps == properties[PropsIndex].initializer.properties

EmittedData == properties[DataIndex].body.statements[1].expression.properties

EmittedComputed == properties[ComputedIndex].initializer.properties

----------------------------------------------------------------------------
(* C1: when classToObject raises, the source unit is identical to the unit  *)
(* before the call: nothing removed, nothing inserted, no import added.     *)
(* The code does not keep this: imports.ensure has already added the        *)
(* PropType import when a later step raises.                                *)

\* C1: in every state where classToObject has raised, the unit equals the unit
\* it was called on.
C1_FailureLeavesUnitUntouched == pc = "failed" => source = before

----------------------------------------------------------------------------
(* C2: every emitted prop object holds exactly one of `default` and         *)
(* `required`: `default` with the default initializer's text when a default *)
(* is present (a required next to it is dropped), else the required         *)
(* assignment unchanged when present, else the synthesized required: false. *)

OptionEntries(object) ==
    SelectSeq(object.properties, LAMBDA e : e.name \in {"default", "required"})

ExpectedOption(prop) ==
    IF prop.default.present
    THEN PropertyAssignment("default",
                            Identifier(prop.default.compilerNode.initializer.text))
    ELSE IF prop.required.present THEN prop.required.compilerNode
    ELSE PropertyAssignment("required", FalseKeyword)

\* C2: each emitted prop object is the type entry followed by exactly one
\* option entry, the one the precedence default > required > required: false
\* selects.
C2_ExactlyOneOfDefaultRequired ==
    PropsPushed =>
        \A i \in 1..Len(vue.props) :
            LET options == OptionEntries(EmittedProps[i].initializer)
            IN /\ Len(options) = 1
               /\ Len(EmittedProps[i].initializer.properties) = 2
               /\ options[1].name = (IF vue.props[i].default.present THEN "default"
                                     ELSE "required")
               /\ options[1] = ExpectedOption(vue.props[i])

C2_Witness ==
    /\ PropsPushed
    /\ \E i \in 1..Len(vue.props) :
        /\ vue.props[i].default.present
        /\ vue.props[i].required.present
        /\ OptionEntries(EmittedProps[i].initializer)[1].name = "default"

----------------------------------------------------------------------------
(* C3: for a prop whose type is not string, number or boolean the emitted   *)
(* type is `<base> as PropType<text>`.  As claimed: base is Function iff    *)
(* the type has a call signature, Array iff the text is array notation,     *)
(* Object otherwise.  As the code has it: the call-signature test comes     *)
(* first, so base is Array iff the text is array notation and the type has  *)
(* no call signature.                                                       *)

IsArrayNotation(text) == StartsWith(text, ArrayLt) \/ EndsWith(text, Brackets)

EmittedType(i) == EmittedProps[i].initializer.properties[1]

HasBase(i, base) ==
    EmittedType(i).initializer.text =
        base \o AsPropTypeLt \o vue.props[i].declaration.typeNode.text \o Gt

\* C3 as claimed: Function iff call signature, Array iff array notation,
\* Object iff neither.
C3_BaseByBothPredicates ==
    PropsPushed =>
        \A i \in NonPrimitiveProps :
            LET type == vue.props[i].declaration.type
                text == vue.props[i].declaration.typeNode.text
            IN /\ EmittedType(i).name = "type"
               /\ HasBase(i, FunctionText) <=> type.callSignatures > 0
               /\ HasBase(i, ArrayText) <=> IsArrayNotation(text)
               /\ HasBase(i, ObjectText) <=>
                      ~(type.callSignatures > 0) /\ ~IsArrayNotation(text)

\* C3 as the code has it: Function iff call signature, Array iff array
\* notation without a call signature, Object iff neither.
C3_BaseByOrderedPredicates ==
    PropsPushed =>
        \A i \in NonPrimitiveProps :
            LET type == vue.props[i].declaration.type
                text == vue.props[i].declaration.typeNode.text
            IN /\ EmittedType(i).name = "type"
               /\ HasBase(i, FunctionText) <=> type.callSignatures > 0
               /\ HasBase(i, ArrayText) <=>
                      ~(type.callSignatures > 0) /\ IsArrayNotation(text)
               /\ HasBase(i, ObjectText) <=>
                      ~(type.callSignatures > 0) /\ ~IsArrayNotation(text)

C3_Witness ==
    /\ PropsPushed
    /\ \E i \in NonPrimitiveProps :
        /\ vue.props[i].declaration.type.callSignatures > 0
        /\ IsArrayNotation(vue.props[i].declaration.typeNode.text)
        /\ HasBase(i, FunctionText)

----------------------------------------------------------------------------
(* C4: a computed entry with a setter and no getter, or with a getter and   *)
(* a setter without a parameter, makes the translation fail wherever it     *)
(* stands in the mapping; a mapping of getters alone never fails, whatever  *)
(* their return types; and after a failure no `computed` entry and no       *)
(* export exist.                                                            *)

SetterOnly(pair) == pair.setter.present /\ ~pair.getter.present

SetterWithoutParameter(pair) ==
    pair.getter.present /\ pair.setter.present /\ Len(pair.setter.parameters) = 0

LacksBody(pair) ==
    \/ pair.getter.present /\ ~pair.getter.body.present
    \/ pair.getter.present /\ pair.setter.present /\ ~pair.setter.body.present

ReachedComputed ==
    Called /\ Len(vue.computed) > 0 /\ Len(properties) = ComputedIndex - 1

FailedInComputed == pc = "failed" /\ ReachedComputed

PastComputed ==
    Called /\ pc \in {"wrap", "docs", "remove", "export", "format", "done"}

\* C4: no unit with an illegal computed entry gets past the computed step; a
\* failure in it is owed to an illegal entry or a missing body, never to a
\* return type; a failed call has emitted no computed entry and no export.
C4_IllegalComputedAborts ==
    /\ PastComputed =>
           \A i \in 1..Len(vue.computed) :
               ~SetterOnly(vue.computed[i]) /\ ~SetterWithoutParameter(vue.computed[i])
    /\ FailedInComputed =>
           \E i \in 1..Len(vue.computed) :
               \/ SetterOnly(vue.computed[i])
               \/ SetterWithoutParameter(vue.computed[i])
               \/ LacksBody(vue.computed[i])
    /\ pc = "failed" =>
           /\ \A i \in 1..Len(properties) : properties[i].name # "computed"
           /\ Len(Exports) = 0
           /\ component = None

C4_Witness ==
    /\ FailedInComputed
    /\ Len(vue.computed) = 2
    /\ vue.computed[1].getter.present /\ ~vue.computed[1].setter.present
    /\ ~vue.computed[1].getter.returnTypeNode.present
    /\ SetterOnly(vue.computed[2])
    /\ error = "Found an illegal computed setter without a getter."

----------------------------------------------------------------------------
(* C5: an emitted getter's return type is the getter's explicit return type *)
(* (getter alone) or the setter parameter's explicit type (getter and       *)
(* setter), else the `any` marker made by the engine; a diagnostic is       *)
(* logged for an entry iff the marker was emitted for it.                   *)

PairNamed(name) ==
    vue.computed[CHOOSE i \in 1..Len(vue.computed) : vue.computed[i].name = name]

ReturnTypeOf(entry) ==
    IF entry.kind = "MethodDeclaration" THEN entry.type
    ELSE entry.initializer.properties[1].type

ExpectedReturnType(pair) ==
    IF pair.setter.present
    THEN IF pair.setter.parameters[1].typeNode.present
         THEN pair.setter.parameters[1].typeNode
         ELSE AnyKeywordTypeNode
    ELSE IF pair.getter.returnTypeNode.present
         THEN pair.getter.returnTypeNode
         ELSE AnyKeywordTypeNode

Diagnostics(name) == {k \in 1..Len(log) : log[k].name = name}

\* C5: each emitted computed entry has the expected return type, and exactly
\* one diagnostic if that type is the marker, none otherwise.
C5_ReturnTypeAndDiagnosticAgree ==
    ComputedPushed =>
        /\ Len(EmittedComputed) =
               Cardinality({i \in 1..Len(vue.computed) : vue.computed[i].getter.present})
        /\ \A j \in 1..Len(EmittedComputed) :
               LET entry == EmittedComputed[j]
                   pair == PairNamed(entry.name)
               IN /\ entry.kind = (IF pair.setter.present THEN "PropertyAssignment"
                                   ELSE "MethodDeclaration")
                  /\ ReturnTypeOf(entry) = ExpectedReturnType(pair)
                  /\ Cardinality(Diagnostics(entry.name)) =
                         (IF ReturnTypeOf(entry) = AnyKeywordTypeNode THEN 1 ELSE 0)
        /\ \A k \in 1..Len(log) :
               \E j \in 1..Len(EmittedComputed) : EmittedComputed[j].name = log[k].name

C5_Witness ==
    /\ ComputedPushed
    /\ \E j \in 1..Len(EmittedComputed) :
        LET pair == PairNamed(EmittedComputed[j].name)
        IN /\ pair.setter.present
           /\ ~pair.getter.returnTypeNode.present
           /\ ReturnTypeOf(EmittedComputed[j]) = SourceTypeNode("StringKeyword")
           /\ Diagnostics(pair.name) = {}

----------------------------------------------------------------------------
(* C6: the object of the factory call holds, in this order: `name`; the     *)
(* passthrough options, in their order, duplicates kept, unchanged; `props` *)
(* iff there are props; `data` iff there is data; `computed` iff there are  *)
(* computed entries.                                                        *)

EntryNames(entries) == [i \in 1..Len(entries) |-> entries[i].name]

ExpectedSections ==
    (IF Len(vue.props) > 0 THEN <<"props">> ELSE <<>>)
    \o (IF Len(vue.data) > 0 THEN <<"data">> ELSE <<>>)
    \o (IF Len(vue.computed) > 0 THEN <<"computed">> ELSE <<>>)

\* C6: the entries of the exported Vue.extend({...}) are name, the passthrough
\* options as given, then the non-empty sections in the order props, data,
\* computed.
C6_EntriesInOrder ==
    Succeeded =>
        /\ Len(Exports) = 1
        /\ Exports[1].expression.expression = Identifier("Vue.extend")
        /\ Len(Exports[1].expression.arguments) = 1
        /\ LET entries == Exports[1].expression.arguments[1].properties
               passed == Len(vue.decorator.properties)
           IN /\ Len(entries) = 1 + passed + Len(ExpectedSections)
              /\ entries[1] =
                     PropertyAssignment("name", StringLiteral(vue.declaration.name.text))
              /\ SubSeq(entries, 2, 1 + passed) = vue.decorator.properties
              /\ EntryNames(SubSeq(entries, 2 + passed, Len(entries))) = ExpectedSections

C6_Witness ==
    /\ Succeeded
    /\ Len(vue.decorator.properties) = 2
    /\ vue.decorator.properties[1] = vue.decorator.properties[2]
    /\ Len(vue.props) > 0 /\ Len(vue.data) = 0 /\ Len(vue.computed) > 0
    /\ EntryNames(Exports[1].expression.arguments[1].properties) =
           <<"name", "components", "components", "props", "computed">>

----------------------------------------------------------------------------
(* C7: after a successful transformation PropType is imported from 'vue'    *)
(* exactly once when some prop is not string, number or boolean (ensure was *)
(* called once per such prop, the import there before or not); when every   *)
(* prop is string, number or boolean ensure was never called and the        *)
(* imports are as before.                                                   *)

\* C7: after success, one PropType import and one ensure call per prop that is
\* not string, number or boolean; no call and the same imports when there
\* is none.
C7_PropTypeImportedOnce ==
    Succeeded =>
        IF NonPrimitiveProps # {}
        THEN /\ Count(source.imports, PropTypeImport) = 1
             /\ Count(calls, "ensure") = Cardinality(NonPrimitiveProps)
        ELSE /\ Count(calls, "ensure") = 0
             /\ source.imports = before.imports

C7_Witness ==
    /\ Succeeded
    /\ Cardinality(NonPrimitiveProps) >= 2
    /\ Count(before.imports, PropTypeImport) = 1
    /\ Count(source.imports, PropTypeImport) = 1

----------------------------------------------------------------------------
(* C8: documentation is carried over.  As claimed: whatever the sequence    *)
(* of documentation blocks of a prop, a data field or the declaration, the  *)
(* replacement carries a comment whose lines are the original's lines.  As  *)
(* the code has it: a prop or data entry carries one comment, the lines of  *)
(* the comment text of the first block, iff that block has comment text     *)
(* (its tags and the later blocks are not carried); the export is preceded  *)
(* by the full text of the first block iff there is a block.                *)

BlockLines(doc) == (IF doc.comment = <<>> THEN <<>> ELSE Split(doc.comment)) \o doc.tags

RECURSIVE OriginalLines(_)
OriginalLines(docs) ==
    IF Len(docs) = 0 THEN <<>> ELSE BlockLines(docs[1]) \o OriginalLines(Tail(docs))

\* The lines between the opening and the closing line of a comment, without
\* their " * ".
InnerLines(lines) ==
    [i \in 1..(Len(lines) - 2) |-> SubSeq(lines[i + 1], 4, Len(lines[i + 1]))]

IsFramed(lines) ==
    /\ Len(lines) >= 2
    /\ \A i \in 2..(Len(lines) - 1) : StartsWith(lines[i], <<" ", "*", " ">>)

\* The comment text given to addSyntheticLeadingComment stands between "/*"
\* and "*/".
CarriesLines(entry, lines) ==
    /\ Len(entry.comments) = 1
    /\ entry.comments[1].kind = "MultiLineCommentTrivia"
    /\ LET emitted == Split(entry.comments[1].text)
       IN /\ IsFramed(emitted)
          /\ emitted[1] = <<"*">>
          /\ emitted[Len(emitted)] = <<" ">>
          /\ InnerLines(emitted) = lines

TriviaCarriesLines(trivia, lines) ==
    /\ EndsWith(trivia, <<" ", "*", "/", NL>>)
    /\ LET emitted == Split(SubSeq(trivia, 1, Len(trivia) - 1))
       IN /\ IsFramed(emitted)
          /\ emitted[1] = <<"/", "*", "*">>
          /\ InnerLines(emitted) = lines

\* C8 as claimed: every documented prop, data field and declaration is
\* replaced by a node carrying all the lines of its documentation blocks.
C8_AllDocumentationCarried ==
    /\ PropsPushed =>
           \A i \in 1..Len(vue.props) :
               LET docs == vue.props[i].declaration.jsDocs
               IN IF Len(docs) > 0
                  THEN CarriesLines(EmittedProps[i], OriginalLines(docs))
                  ELSE EmittedProps[i].comments = <<>>
    /\ DataPushed =>
           \A i \in 1..Len(vue.data) :
               LET docs == vue.data[i].jsDocs
               IN IF Len(docs) > 0
                  THEN CarriesLines(EmittedData[i], OriginalLines(docs))
                  ELSE EmittedData[i].comments = <<>>
    /\ Succeeded =>
           LET docs == vue.declaration.jsDocs
           IN IF Len(docs) > 0
              THEN TriviaCarriesLines(Exports[1].leadingTrivia, OriginalLines(docs))
              ELSE Exports[1].leadingTrivia = <<>>

FirstBlockHasText(docs) == Len(docs) > 0 /\ docs[1].comment # <<>>

\* C8 as the code has it: the comment text of the first block on prop and data
\* entries, the full text of the first block before the export.
C8_FirstBlockCarried ==
    /\ PropsPushed =>
           \A i \in 1..Len(vue.props) :
               LET docs == vue.props[i].declaration.jsDocs
               IN IF FirstBlockHasText(docs)
                  THEN CarriesLines(EmittedProps[i], Split(docs[1].comment))
                  ELSE EmittedProps[i].comments = <<>>
    /\ DataPushed =>
           \A i \in 1..Len(vue.data) :
               LET docs == vue.data[i].jsDocs
               IN IF FirstBlockHasText(docs)
                  THEN CarriesLines(EmittedData[i], Split(docs[1].comment))
                  ELSE EmittedData[i].comments = <<>>
    /\ Succeeded =>
           LET docs == vue.declaration.jsDocs
           IN IF Len(docs) > 0
              THEN TriviaCarriesLines(Exports[1].leadingTrivia, BlockLines(docs[1]))
              ELSE Exports[1].leadingTrivia = <<>>

C8_Witness ==
    /\ Succeeded
    /\ Len(vue.data) > 0
    /\ Len(vue.data[1].jsDocs) = 2
    /\ vue.data[1].jsDocs[1] = JSDoc(<<"a", NL, "b">>, << <<"@", "x">> >>)
    /\ vue.data[1].jsDocs[2].comment # <<>>
    /\ CarriesLines(EmittedData[1], << <<"a">>, <<"b">> >>)

----------------------------------------------------------------------------
(* C9: when extract answers that the unit holds no component, classToObject *)
(* leaves the unit as it was, calls nothing on it, logs nothing and raises  *)
(* nothing.                                                                 *)

\* C9: with no component model, every state of the call has the unit as it
\* was, no call, no log line, no error.
C9_AbsentIsNoOp ==
    vue.absent =>
        /\ source = before
        /\ calls = <<>>
        /\ log = <<>>
        /\ error = ""
        /\ properties = <<>>
        /\ pc \in {"extract", "done"}

C9_Witness == vue.absent /\ pc = "done"

----------------------------------------------------------------------------
(* C10: the declaration is removed only once every translator has returned  *)
(* and the documentation is captured; the export is inserted only after the *)
(* removal, exactly once; the unit is reformatted only after the insertion, *)
(* exactly once; a call that raised has removed nothing.                    *)

ExpectedEntryCount ==
    1 + Len(vue.decorator.properties) + Len(ExpectedSections)

CapturedDocumentation ==
    IF Len(vue.declaration.jsDocs) > 0 THEN getFullText(vue.declaration.jsDocs[1])
    ELSE <<>>

\* C10: remove, addExportAssignment and formatText happen once each, in this
\* order, after every translator and the capture of the documentation; a
\* raised call has removed and inserted nothing.
C10_RemoveInsertFormatInOrder ==
    Called =>
        /\ ~ClassPresent =>
               /\ pc \in {"export", "format", "done"}
               /\ Len(properties) = ExpectedEntryCount
               /\ component = CallExpression(Identifier("Vue.extend"),
                                             <<ObjectLiteralExpression(properties)>>)
               /\ documentation = CapturedDocumentation
        /\ Count(calls, "remove") = (IF ClassPresent THEN 0 ELSE 1)
        /\ Len(Exports) = (IF pc \in {"format", "done"} THEN 1 ELSE 0)
        /\ Count(calls, "addExportAssignment") = Len(Exports)
        /\ Count(calls, "formatText") = (IF pc = "done" THEN 1 ELSE 0)
        /\ pc = "done" =>
               /\ ~ClassPresent
               /\ Exports[1].expression = component
               /\ SelectSeq(calls, NotEnsure) =
                      <<"remove", "addExportAssignment", "formatText">>
               /\ SubSeq(calls, Len(calls) - 2, Len(calls)) =
                      <<"remove", "addExportAssignment", "formatText">>
        /\ pc = "failed" => ClassPresent /\ Len(Exports) = 0

C10_Witness ==
    /\ Succeeded
    /\ Count(calls, "ensure") >= 1
    /\ Len(vue.data) > 0 /\ Len(vue.computed) > 0
    /\ Len(vue.declaration.jsDocs) > 0
    /\ ~ClassPresent /\ Len(Exports) = 1

====
